---------------------------- MODULE Spec2Model ----------------------------
(***************************************************************************)
(* A model of boots (JaspervanRiet/boots): the pull-request statistics     *)
(* pipeline of src/src/main.go (getPullRequestsFromLastTwoWeeks, main) and *)
(* of src/src/metrics.go (AnalyzePullRequests and what it calls; the file  *)
(* holds several versions one after the other, the model is of the last,   *)
(* lines 187-402).                                                         *)
(*                                                                         *)
(* Time.  A time.Time is a natural number of ticks, TicksPerHour ticks to  *)
(* the hour; 0 is the zero time.Time (what GetCreatedAt, GetSubmittedAt    *)
(* and GetMergedAt return for an absent timestamp).  A time.Duration is an *)
(* integer number of ticks.                                                *)
(*                                                                         *)
(* The remote.  A paginated listing is a sequence of pages.  Merged pull   *)
(* requests have distinct merge commits, a pull request and a deployment   *)
(* have a creation time, a review request a created_at, a review a         *)
(* submitted_at and no created_at, a commit neither.  A request is         *)
(* answered or fails.                                                      *)
(*                                                                         *)
(* Not modelled: the fields no statement reads (WasClosedWithoutMerge),    *)
(* the branch label beyond whether it contains "noticket".                 *)
(***************************************************************************)
EXTENDS Integers, Sequences, FiniteSets

\* ------------------------------------------------------------------ bounds
TicksPerHour == 2        \* resolution of the clock
MaxPRs == 3              \* pull requests the remote lists (selector, correlator)
MaxPages == 2            \* pages of one paginated listing
MaxEvents == 3           \* timeline events of one pull request
MaxDeployments == 2      \* deployments the remote lists
MaxDeployTick == 2       \* distinct deployment times
MaxBatch == 2            \* pull requests of a whole run

VARIABLES
    pc,                    \* where the run is
    prSource,              \* remote: the pages of closed pull requests
    optPage,               \* main.go: opt.Page of getPullRequestsFromLastTwoWeeks
    pagesFetched,          \* number of pull-request pages the remote has served
    allPullRequests,       \* main.go: allPullRequests, then prs of AnalyzePullRequests
    fetchFailed,           \* some remote call has returned an error
    deployments,           \* metrics.go: deployments of AnalyzePullRequests
    deploymentShas,        \* metrics.go: deploymentShas (a map)
    timeDeployment,        \* metrics.go: timeDeployment (a map)
    timeForThisDeployment, \* metrics.go: timeForThisDeployment
    di,                    \* next deployment to index
    wi,                    \* next pull request to walk
    prIdx,                 \* next pull request to process
    timelineSource,        \* remote: the timeline pages of pull request prIdx
    evPage,                \* metrics.go: opt.Page of getAllTimelineEventsForPullRequest
    allEvents,             \* metrics.go: allEvents
    locals,                \* metrics.go: the locals of the last processPullRequest
    prStats,               \* metrics.go: prStats
    metrics                \* the *Metrics returned to main

vars == <<pc, prSource, optPage, pagesFetched, allPullRequests, fetchFailed,
          deployments, deploymentShas, timeDeployment, timeForThisDeployment,
          di, wi, prIdx, timelineSource, evPage, allEvents, locals, prStats,
          metrics>>

selectorVars == <<prSource, optPage, pagesFetched, allPullRequests>>
correlatorVars == <<deployments, deploymentShas, timeDeployment,
                    timeForThisDeployment, di, wi>>
timelineVars == <<prIdx, timelineSource, evPage, allEvents, locals, prStats>>

\* ------------------------------------------------------------------- time
ZeroTime == 0
IsZero(t) == t = ZeroTime

HoursPerWeek == 24 * 7
TwoWeeks == 2 * HoursPerWeek * TicksPerHour

\* time.Now() of the run: late enough for every time of the model to be positive.
now == TwoWeeks + 12 * TicksPerHour

\* The largest time.Duration (2^63 - 1 ns, 153722867 whole minutes), in whole
\* hours and in ticks.
MaxDurationHours == 153722867 \div 60
MaxDuration == MaxDurationHours * TicksPerHour

\* time.Time.Sub: t - u, saturating when the difference overflows a Duration,
\* which among the times of the model happens only against the zero time.
Sub(t, u) ==
    IF IsZero(t) /\ ~IsZero(u) THEN -MaxDuration
    ELSE IF IsZero(u) /\ ~IsZero(t) THEN MaxDuration
    ELSE t - u

Abs(d) == IF d < 0 THEN -d ELSE d

\* time.Duration.Round(time.Hour): to the nearest hour, halfway values away from
\* zero; a saturated duration stays as it is.  The result is in ticks.
RoundHour(d) ==
    IF Abs(d) >= MaxDuration THEN d
    ELSE LET q == Abs(d) \div TicksPerHour
             r == Abs(d) % TicksPerHour
             up == IF 2 * r < TicksPerHour THEN q ELSE q + 1
         IN  IF d < 0 THEN -(up * TicksPerHour) ELSE up * TicksPerHour

\* int(x) of a float x = n / m: truncation toward zero.
TruncDiv(n, m) == IF n < 0 THEN -((-n) \div m) ELSE n \div m

\* int(d.Hours())
Hours(d) == TruncDiv(d, TicksPerHour)

Min(S) == CHOOSE x \in S : \A y \in S : x <= y
Max(S) == CHOOSE x \in S : \A y \in S : x >= y

\* ------------------------------------------------------------ the remote
\* A paginated listing: a non-empty sequence of pages.  Page i answers
\* resp.NextPage = i + 1, the last page 0.
NextPage(src, i) == IF i < Len(src) THEN i + 1 ELSE 0
\* The request's opt.Page = 0 asks for the first page.
Served(p) == IF p = 0 THEN 1 ELSE p

\* The listings that cut `list` into np pages; f[k] is the page of item k.
PageOf(list, f, i) ==
    LET idx == {k \in 1..Len(list) : f[k] = i}
    IN  IF idx = {} THEN <<>> ELSE SubSeq(list, Min(idx), Max(idx))
Cuts(n, np) ==
    { g \in [1..n -> 1..np] : \A j, k \in 1..n : j <= k => g[j] <= g[k] }
Listings(list, maxPages) ==
    UNION { { [i \in 1..np |-> PageOf(list, f, i)] : f \in Cuts(Len(list), np) } :
              np \in 1..maxPages }
Flatten(src) ==
    LET RECURSIVE F(_)
        F(i) == IF i > Len(src) THEN <<>> ELSE src[i] \o F(i + 1)
    IN  F(1)

SeqsUpTo(S, n) == UNION { [1..k -> S] : k \in 0..n }

\* A *github.PullRequest: the fields the program reads.  number is the pull
\* request's place in the listing; merge commits are distinct, sha = number.
CreatedAt0 == now - 8 * TicksPerHour
PullRequest(k, merged, noticket) ==
    [number |-> k, createdAt |-> CreatedAt0, mergedAt |-> merged,
     sha |-> k, noticket |-> noticket]

\* ------------------------------------------------- main.go: the selector
weeksAgo2Strict(p) == Sub(now, p.mergedAt) > TwoWeeks
neverTwoWeeksAgo(p) == FALSE
\* main.go:70-71  weeksAgo := now.Sub(p.MergedAt.Time).Hours() / (24 * 7); weeksAgo >= 2
weeksAgoAtLeast2(p) == Sub(now, p.mergedAt) >= TwoWeeks

\* main.go:66-76: the loop over one page.  stop: the function returned.
RECURSIVE scanPage(_, _, _)
scanPage(pullRequests, i, acc) ==
    IF i > Len(pullRequests) THEN [prs |-> acc, stop |-> FALSE]
    ELSE LET p == pullRequests[i]
         IN  IF IsZero(p.mergedAt) THEN scanPage(pullRequests, i + 1, acc)
             ELSE IF weeksAgoAtLeast2(p) THEN [prs |-> acc, stop |-> TRUE]
             ELSE scanPage(pullRequests, i + 1, Append(acc, p))

analyzeIdle ==
    /\ fetchFailed = FALSE
    /\ deployments = <<>>
    /\ deploymentShas = <<>>
    /\ timeDeployment = <<>>
    /\ timeForThisDeployment = ZeroTime
    /\ di = 1
    /\ wi = 1
    /\ prIdx = 1
    /\ timelineSource = <<>>
    /\ evPage = 0
    /\ allEvents = <<>>
    /\ locals = <<>>
    /\ prStats = <<>>
    /\ metrics = <<>>

\* main.go:55-83: one iteration of the page loop, the request answered.
FetchPage ==
    /\ pc = "select"
    /\ LET i == Served(optPage)
           r == scanPage(prSource[i], 1, allPullRequests)
       IN  /\ pagesFetched' = pagesFetched + 1
           /\ allPullRequests' = r.prs
           /\ IF r.stop \/ NextPage(prSource, i) = 0
              THEN pc' = "analyze" /\ optPage' = optPage
              ELSE pc' = pc /\ optPage' = NextPage(prSource, i)
    /\ UNCHANGED <<prSource, fetchFailed, metrics>>
    /\ UNCHANGED correlatorVars
    /\ UNCHANGED timelineVars

\* main.go:62-64: the request fails, log.Fatal ends the process.
FetchPageErr ==
    /\ pc = "select"
    /\ fetchFailed' = TRUE
    /\ pc' = "fatal"
    /\ UNCHANGED <<metrics>>
    /\ UNCHANGED selectorVars
    /\ UNCHANGED correlatorVars
    /\ UNCHANGED timelineVars

\* ------------------------------------------------ specification: selector
MergeChoices ==
    {ZeroTime, now - TwoWeeks - 1, now - TwoWeeks, now - TwoWeeks + 1,
     now - TicksPerHour}
SelectorLists ==
    { [k \in 1..Len(m) |-> PullRequest(k, m[k], FALSE)] :
        m \in SeqsUpTo(MergeChoices, MaxPRs) }
SelectorSources == UNION { Listings(l, MaxPages) : l \in SelectorLists }

InitSelector ==
    /\ pc = "select"
    /\ prSource \in SelectorSources
    /\ optPage = 0
    /\ pagesFetched = 0
    /\ allPullRequests = <<>>
    /\ analyzeIdle

NextSelector == FetchPage \/ FetchPageErr

SpecSelector == InitSelector /\ [][NextSelector]_vars
\* The process runs on: a pending request is answered or fails.
SpecSelectorFair == SpecSelector /\ WF_vars(NextSelector)

\* --------------------------------------- metrics.go: the deployments
\* A Go map: a function whose domain is the set of keys present.
MapPut(m, k, v) == [x \in (DOMAIN m) \cup {k} |-> IF x = k THEN v ELSE m[x]]

\* A *github.Deployment: GetSHA() and GetCreatedAt().Time, which the remote
\* always sets (never the zero time).
Deployment(s, t) == [sha |-> s, createdAt |-> t]

\* metrics.go:209  deployments, _, _ := ListDeployments(...): the answer.
FetchDeployments(menu) ==
    /\ pc = "analyze"
    /\ \E d \in menu : deployments' = d
    /\ deploymentShas' = <<>>
    /\ timeDeployment' = <<>>
    /\ timeForThisDeployment' = ZeroTime
    /\ di' = 1
    /\ wi' = 1
    /\ pc' = "correlate"
    /\ UNCHANGED <<fetchFailed, metrics>>
    /\ UNCHANGED selectorVars
    /\ UNCHANGED timelineVars

\* metrics.go:209: the request fails; the error is discarded and deployments
\* is nil.
FetchDeploymentsErr ==
    /\ pc = "analyze"
    /\ deployments' = <<>>
    /\ fetchFailed' = TRUE
    /\ deploymentShas' = <<>>
    /\ timeDeployment' = <<>>
    /\ timeForThisDeployment' = ZeroTime
    /\ di' = 1
    /\ wi' = 1
    /\ pc' = "correlate"
    /\ UNCHANGED metrics
    /\ UNCHANGED selectorVars
    /\ UNCHANGED timelineVars

\* metrics.go:356-359: one iteration of the loop over the deployments.
IndexDeployment ==
    /\ pc = "correlate"
    /\ di <= Len(deployments)
    /\ deploymentShas' =
         MapPut(deploymentShas, deployments[di].sha, deployments[di].createdAt)
    /\ di' = di + 1
    /\ UNCHANGED <<pc, fetchFailed, metrics, deployments, timeDeployment,
                   timeForThisDeployment, wi>>
    /\ UNCHANGED selectorVars
    /\ UNCHANGED timelineVars

walkStepSaveMatches(td, t, sha, shas) ==
    IF sha \in DOMAIN shas
    THEN [map |-> MapPut(td, sha, shas[sha]), time |-> shas[sha]]
    ELSE IF ~IsZero(t) THEN [map |-> MapPut(td, sha, t), time |-> t]
    ELSE [map |-> td, time |-> t]
walkStepNoFill(td, t, sha, shas) ==
    IF sha \in DOMAIN shas THEN [map |-> td, time |-> shas[sha]]
    ELSE [map |-> td, time |-> t]
walkStepSaveZero(td, t, sha, shas) ==
    IF sha \in DOMAIN shas THEN [map |-> td, time |-> shas[sha]]
    ELSE [map |-> MapPut(td, sha, t), time |-> t]
\* metrics.go:364-374: the body of the loop over the pull requests, from
\* timeDeployment td and timeForThisDeployment t.
walkStep(td, t, sha, shas) ==
    IF sha \in DOMAIN shas THEN [map |-> td, time |-> shas[sha]]
    ELSE IF ~IsZero(t) THEN [map |-> MapPut(td, sha, t), time |-> t]
    ELSE [map |-> td, time |-> t]

\* metrics.go:363-376: one iteration of the loop over the pull requests.
WalkPullRequest ==
    /\ pc = "correlate"
    /\ di > Len(deployments)
    /\ wi <= Len(allPullRequests)
    /\ LET r == walkStep(timeDeployment, timeForThisDeployment,
                         allPullRequests[wi].sha, deploymentShas)
       IN  /\ timeDeployment' = r.map
           /\ timeForThisDeployment' = r.time
    /\ wi' = wi + 1
    /\ UNCHANGED <<pc, fetchFailed, metrics, deployments, deploymentShas, di>>
    /\ UNCHANGED selectorVars
    /\ UNCHANGED timelineVars

\* metrics.go:378, 210: return timeDeployment.
ReturnDeploymentTimes ==
    /\ pc = "correlate"
    /\ di > Len(deployments)
    /\ wi > Len(allPullRequests)
    /\ pc' = "process"
    /\ UNCHANGED <<fetchFailed, metrics>>
    /\ UNCHANGED selectorVars
    /\ UNCHANGED correlatorVars
    /\ UNCHANGED timelineVars

\* ---------------------------------------------- specification: correlator
MergedAt0 == now - 2 * TicksPerHour
\* Deployment times an hour apart, off the hour by one tick.
DeployTimes == { now - (MaxDeployTick - t) * TicksPerHour - 1 : t \in 1..MaxDeployTick }
\* SHA 0 is a commit that is no pull request's merge commit.
CorrelatorDeployments ==
    SeqsUpTo({ Deployment(s, t) : s \in 0..MaxPRs, t \in DeployTimes },
             MaxDeployments)
CorrelatorBatches ==
    { [k \in 1..n |-> PullRequest(k, MergedAt0, FALSE)] : n \in 0..MaxPRs }

InitCorrelator ==
    /\ pc = "analyze"
    /\ prSource = <<>>
    /\ optPage = 0
    /\ pagesFetched = 0
    /\ allPullRequests \in CorrelatorBatches
    /\ analyzeIdle

NextCorrelator ==
    \/ FetchDeployments(CorrelatorDeployments)
    \/ IndexDeployment
    \/ WalkPullRequest
    \/ ReturnDeploymentTimes

SpecCorrelator == InitCorrelator /\ [][NextCorrelator]_vars

\* ------------------------------------------ metrics.go: the timeline
eventReviewRequested == "review_requested"
eventReviewed == "reviewed"
eventCommitted == "committed"

\* A *github.Timeline: GetEvent(), GetCreatedAt().Time, GetSubmittedAt().Time.
\* A review carries its time in submitted_at, a commit carries neither field.
ReviewRequested(t) ==
    [event |-> eventReviewRequested, createdAt |-> t, submittedAt |-> ZeroTime]
Reviewed(t) ==
    [event |-> eventReviewed, createdAt |-> ZeroTime, submittedAt |-> t]
Committed ==
    [event |-> eventCommitted, createdAt |-> ZeroTime, submittedAt |-> ZeroTime]

\* metrics.go:330-334: the time an event is sorted by.
sortTime(e) == IF IsZero(e.createdAt) THEN e.submittedAt ELSE e.createdAt

\* metrics.go:329-343: the less function handed to sort.Slice.
less(a, b) == Sub(sortTime(a), sortTime(b)) > 0

\* sort.Slice on a slice of at most 12 elements is an insertion sort: each
\* element moves left past the elements it is less than.
RECURSIVE insert(_, _)
insert(s, e) ==
    IF s = <<>> \/ ~less(e, s[Len(s)]) THEN Append(s, e)
    ELSE Append(insert(SubSeq(s, 1, Len(s) - 1), e), s[Len(s)])
RECURSIVE sortSlice(_)
sortSlice(s) ==
    IF s = <<>> THEN <<>>
    ELSE insert(sortSlice(SubSeq(s, 1, Len(s) - 1)), s[Len(s)])

\* The remote's timeline l served in one page (c < 0) or cut in two after its
\* first c events.
Paged(l, c) ==
    IF c < 0 THEN <<l>>
    ELSE LET k == IF c < Len(l) THEN c ELSE Len(l)
         IN  <<SubSeq(l, 1, k), SubSeq(l, k + 1, Len(l))>>

\* metrics.go:262, 305-310: processPullRequest calls
\* getAllTimelineEventsForPullRequest; the remote's timeline is one of lists,
\* paged by one of cuts.
StartTimeline(lists, cuts) ==
    /\ pc = "process"
    /\ prIdx <= Len(allPullRequests)
    /\ \E l \in lists : \E c \in cuts : timelineSource' = Paged(l, c)
    /\ evPage' = 0
    /\ allEvents' = <<>>
    /\ pc' = "timeline"
    /\ UNCHANGED <<fetchFailed, metrics, prIdx, locals, prStats>>
    /\ UNCHANGED selectorVars
    /\ UNCHANGED correlatorVars

\* metrics.go:312-345: one iteration of the page loop, the request answered;
\* after the last page the events are sorted and returned.
FetchTimelinePage ==
    /\ pc = "timeline"
    /\ LET i == Served(evPage)
           got == allEvents \o timelineSource[i]
       IN  IF NextPage(timelineSource, i) = 0
           THEN /\ allEvents' = sortSlice(got)
                /\ pc' = "scan"
                /\ evPage' = evPage
           ELSE /\ allEvents' = got
                /\ pc' = pc
                /\ evPage' = NextPage(timelineSource, i)
    /\ UNCHANGED <<fetchFailed, metrics, prIdx, timelineSource, locals, prStats>>
    /\ UNCHANGED selectorVars
    /\ UNCHANGED correlatorVars

\* metrics.go:315-317: the request fails, log.Fatal ends the process.
FetchTimelineErr ==
    /\ pc = "timeline"
    /\ fetchFailed' = TRUE
    /\ pc' = "fatal"
    /\ UNCHANGED metrics
    /\ UNCHANGED selectorVars
    /\ UNCHANGED correlatorVars
    /\ UNCHANGED timelineVars

\* metrics.go:271-284: the loop over the sorted events, from the locals st.
RECURSIVE scanTimeline(_, _, _)
scanTimeline(timelineEvents, i, st) ==
    IF i > Len(timelineEvents) THEN st
    ELSE LET e == timelineEvents[i]
             st1 == IF st.isFirstReview /\ e.event = eventReviewRequested
                    THEN [st EXCEPT !.timeReviewRequested = e.createdAt,
                                    !.isFirstReview = FALSE]
                    ELSE st
         IN  IF IsZero(st1.timeReviewed) /\ e.event = eventReviewed
             THEN [st1 EXCEPT !.timeReviewed = e.submittedAt,
                              !.wasReviewed = TRUE]
             ELSE scanTimeline(timelineEvents, i + 1, st1)

\* metrics.go:264-269, 286-291: the locals before and after the loop.
processLocals(pr, timelineEvents, deployTimes) ==
    LET st == scanTimeline(timelineEvents, 1,
                  [timeReviewRequested |-> pr.createdAt, isFirstReview |-> TRUE,
                   wasReviewed |-> FALSE, timeReviewed |-> ZeroTime])
    IN  [timeReviewRequested |-> st.timeReviewRequested,
         isFirstReview |-> st.isFirstReview,
         wasReviewed |-> st.wasReviewed,
         timeReviewed |-> st.timeReviewed,
         timeMerged |-> pr.mergedAt,
         timeDeployed |-> IF pr.sha \in DOMAIN deployTimes
                          THEN deployTimes[pr.sha] ELSE ZeroTime]

\* metrics.go:383-387: the branch label does not contain "noticket".
doesPullRequestHaveIssueAttached(pr) == ~pr.noticket

\* metrics.go:293-301: the pullRequestStatistics built from the locals l.
pullRequestStatistics(pr, l) ==
    [IsTrackedWithIssue |-> doesPullRequestHaveIssueAttached(pr),
     TimeToReview |-> RoundHour(Sub(l.timeReviewed, l.timeReviewRequested)),
     TimeToMerge |-> RoundHour(Sub(l.timeMerged, l.timeReviewRequested)),
     TimeToProduction |-> RoundHour(Sub(l.timeDeployed, l.timeReviewRequested)),
     WasReviewed |-> l.wasReviewed,
     WasDeployed |-> ~IsZero(l.timeDeployed)]

\* metrics.go:264-301, 215: the rest of processPullRequest, its result appended
\* to prStats.
ProcessPullRequest ==
    /\ pc = "scan"
    /\ LET pr == allPullRequests[prIdx]
           l == processLocals(pr, allEvents, timeDeployment)
       IN  /\ locals' = l
           /\ prStats' = Append(prStats, pullRequestStatistics(pr, l))
    /\ prIdx' = prIdx + 1
    /\ pc' = "process"
    /\ UNCHANGED <<fetchFailed, metrics, timelineSource, evPage, allEvents>>
    /\ UNCHANGED selectorVars
    /\ UNCHANGED correlatorVars

\* ------------------------------------------------ specification: timeline
\* Events at the pull request's creation and an hour later, on the hour and one
\* tick off it; the timelines are the sequences of at most MaxEvents of them, in
\* every arrival order, served in one page or cut in two at any place.
EventTimes ==
    { CreatedAt0, CreatedAt0 + 1, CreatedAt0 + TicksPerHour,
      CreatedAt0 + TicksPerHour + 1 }
EventChoices ==
    { ReviewRequested(t) : t \in EventTimes } \cup
    { Reviewed(t) : t \in EventTimes } \cup { Committed }
InitTimeline ==
    /\ pc = "process"
    /\ prSource = <<>>
    /\ optPage = 0
    /\ pagesFetched = 0
    /\ allPullRequests = << PullRequest(1, MergedAt0, FALSE) >>
    /\ analyzeIdle

NextTimeline ==
    \/ StartTimeline(SeqsUpTo(EventChoices, MaxEvents), (0 - 1)..MaxEvents)
    \/ FetchTimelinePage
    \/ FetchTimelineErr
    \/ ProcessPullRequest

SpecTimeline == InitTimeline /\ [][NextTimeline]_vars

\* ----------------------------------------- metrics.go: the aggregation
\* A []float64 of whole hours is a sequence of integers: every duration read
\* here was rounded to the hour, so d.Hours() is whole.
RECURSIVE insertAscending(_, _)
insertAscending(s, x) ==
    IF s = <<>> \/ ~(x < s[Len(s)]) THEN Append(s, x)
    ELSE Append(insertAscending(SubSeq(s, 1, Len(s) - 1), x), s[Len(s)])
\* sort.Float64s on the copy stats.Median makes.
RECURSIVE sortFloat64s(_)
sortFloat64s(s) ==
    IF s = <<>> THEN <<>>
    ELSE insertAscending(sortFloat64s(SubSeq(s, 1, Len(s) - 1)), s[Len(s)])

\* What int(math.NaN()) may be: the conversion succeeds with an
\* implementation-dependent value, 0 on arm64 and math.MinInt64 on amd64.  MinInt
\* stands for math.MinInt64, which is only ever compared for equality.
MinInt == -(2^30)
IntOfNaN == {0, MinInt}

medianRoundedUp(input, nan) ==
    IF input = <<>> THEN nan
    ELSE LET c == sortFloat64s(input)
             l == Len(c)
         IN  IF l % 2 = 0 THEN (c[l \div 2] + c[l \div 2 + 1] + 1) \div 2
             ELSE c[(l + 1) \div 2]
\* metrics.go:245-253: int(m) for m, _ := stats.Median(input).  Median sorts a
\* copy and returns the middle value, or the mean of the two middle values; of
\* an empty input it returns NaN, whose conversion yields nan.
intMedian(input, nan) ==
    IF input = <<>> THEN nan
    ELSE LET c == sortFloat64s(input)
             l == Len(c)
         IN  IF l % 2 = 0 THEN TruncDiv(c[l \div 2] + c[l \div 2 + 1], 2)
             ELSE c[(l + 1) \div 2]

RECURSIVE accumulateUngated(_, _, _)
accumulateUngated(stats, i, a) ==
    IF i > Len(stats) THEN a
    ELSE LET stat == stats[i]
             a1 == IF ~stat.IsTrackedWithIssue
                   THEN [a EXCEPT !.untrackedPullRequests = @ + 1] ELSE a
             a2 == [a1 EXCEPT
                      !.totalReviewTime = @ + Hours(stat.TimeToReview),
                      !.reviewTime = Append(@, Hours(stat.TimeToReview)),
                      !.reviewedPullRequests =
                         IF stat.WasReviewed THEN @ + 1 ELSE @]
             a3 == [a2 EXCEPT !.timeToMerge = Append(@, Hours(stat.TimeToMerge))]
             a4 == IF stat.WasDeployed
                   THEN [a3 EXCEPT
                           !.deployedPullRequests = @ + 1,
                           !.leadTimeForChanges =
                              Append(@, Hours(stat.TimeToProduction))]
                   ELSE a3
         IN  accumulateUngated(stats, i + 1, a4)
\* metrics.go:218-242: the loop over prStats, from the accumulators a.
RECURSIVE accumulate(_, _, _)
accumulate(stats, i, a) ==
    IF i > Len(stats) THEN a
    ELSE LET stat == stats[i]
             a1 == IF ~stat.IsTrackedWithIssue
                   THEN [a EXCEPT !.untrackedPullRequests = @ + 1] ELSE a
             a2 == IF stat.WasReviewed
                   THEN [a1 EXCEPT
                           !.totalReviewTime = @ + Hours(stat.TimeToReview),
                           !.reviewTime = Append(@, Hours(stat.TimeToReview)),
                           !.reviewedPullRequests = @ + 1]
                   ELSE a1
             a3 == [a2 EXCEPT !.timeToMerge = Append(@, Hours(stat.TimeToMerge))]
             a4 == IF stat.WasDeployed
                   THEN [a3 EXCEPT
                           !.deployedPullRequests = @ + 1,
                           !.leadTimeForChanges =
                              Append(@, Hours(stat.TimeToProduction))]
                   ELSE a3
         IN  accumulate(stats, i + 1, a4)

accumulators ==
    accumulate(prStats, 1,
        [untrackedPullRequests |-> 0, reviewedPullRequests |-> 0,
         deployedPullRequests |-> 0, totalReviewTime |-> 0,
         reviewTime |-> <<>>, timeToMerge |-> <<>>, leadTimeForChanges |-> <<>>])

\* metrics.go:218-257: the loop over prStats is over, the statistics are
\* aggregated: totalReviewTime / reviewedPullRequests panics (integer divide by
\* zero) when no pull request was reviewed.
Aggregate ==
    /\ pc = "process"
    /\ prIdx > Len(allPullRequests)
    /\ LET a == accumulators
       IN  IF a.reviewedPullRequests = 0
           THEN pc' = "panic" /\ metrics' = metrics
           ELSE /\ pc' = "print"
                /\ \E nan \in IntOfNaN :
                     metrics' =
                       [AverageReviewTime |->
                           TruncDiv(a.totalReviewTime, a.reviewedPullRequests),
                        MedianReviewTime |-> intMedian(a.reviewTime, nan),
                        MedianTimeToMerge |-> intMedian(a.timeToMerge, nan),
                        MedianLeadTimeForChanges |->
                           intMedian(a.leadTimeForChanges, nan),
                        TotalPullRequests |-> Len(allPullRequests),
                        PullRequestsWithoutIssue |-> a.untrackedPullRequests,
                        PullRequestsWithReview |-> a.reviewedPullRequests]
    /\ UNCHANGED fetchFailed
    /\ UNCHANGED selectorVars
    /\ UNCHANGED correlatorVars
    /\ UNCHANGED timelineVars

\* main.go:107-119: AnalyzePullRequests has returned, the metrics are printed.
PrintMetrics ==
    /\ pc = "print"
    /\ pc' = "done"
    /\ UNCHANGED <<fetchFailed, metrics>>
    /\ UNCHANGED selectorVars
    /\ UNCHANGED correlatorVars
    /\ UNCHANGED timelineVars

\* ----------------------------------------- specification: the whole run
\* The remote of a whole run: pull requests merged inside the window an hour
\* apart, or at the boundary; a review one or two hours after creation, or a
\* review request and no review, or no event at all, the timelines in two
\* pages; at most one deployment.
PipelineLists ==
    { [k \in 1..Len(m) |-> PullRequest(k, m[k][1], m[k][2])] :
        m \in SeqsUpTo(({MergedAt0, MergedAt0 + TicksPerHour} \X BOOLEAN)
                          \cup {<<now - TwoWeeks, FALSE>>}, MaxBatch) }
PipelineSources ==
    { <<l>> : l \in PipelineLists } \cup
    { <<SubSeq(l, 1, 1), SubSeq(l, 2, Len(l))>> : l \in PipelineLists \ {<<>>} }
PipelineDeployments ==
    SeqsUpTo({ Deployment(s, t) : s \in 1..MaxBatch, t \in DeployTimes }, 1)
PipelineTimelines ==
    { <<>>,
      <<ReviewRequested(CreatedAt0 + TicksPerHour)>>,
      <<Reviewed(CreatedAt0 + TicksPerHour)>>,
      <<Committed, Reviewed(CreatedAt0 + 2 * TicksPerHour)>> }

Init ==
    /\ pc = "select"
    /\ prSource \in PipelineSources
    /\ optPage = 0
    /\ pagesFetched = 0
    /\ allPullRequests = <<>>
    /\ analyzeIdle

Next ==
    \/ FetchPage
    \/ FetchPageErr
    \/ FetchDeployments(PipelineDeployments)
    \/ FetchDeploymentsErr
    \/ IndexDeployment
    \/ WalkPullRequest
    \/ ReturnDeploymentTimes
    \/ StartTimeline(PipelineTimelines, {1})
    \/ FetchTimelinePage
    \/ FetchTimelineErr
    \/ ProcessPullRequest
    \/ Aggregate
    \/ PrintMetrics

Spec == Init /\ [][Next]_vars

\* ---------------------------------------------------- claims: selector
\* A pull request merged inside the window: merged, and newer than the boundary.
InWindow(p) == p.mergedAt # ZeroTime /\ p.mergedAt > now - TwoWeeks
Beyond(p) == p.mergedAt # ZeroTime /\ p.mergedAt <= now - TwoWeeks
\* The listing is ordered by merge recency, newest first.
Ordered(src) ==
    LET l == Flatten(src)
    IN  \A j, k \in 1..Len(l) :
          (j < k /\ l[j].mergedAt # ZeroTime /\ l[k].mergedAt # ZeroTime)
            => l[j].mergedAt >= l[k].mergedAt
Selected == pc \notin {"select", "fatal"}

\* C7: for a listing ordered by merge recency, the selector returns exactly the
\* pull requests merged inside the two-week window, in the listing's order.
C7_SelectorResult ==
    (Selected /\ Ordered(prSource))
      => allPullRequests = SelectSeq(Flatten(prSource), InWindow)

\* C7: the boundary is crossed in the middle of a page that is not the last,
\* after a pull request with no merge time.
C7_Witness ==
    /\ pc = "analyze"
    /\ Ordered(prSource)
    /\ \E i \in 1..Len(prSource) :
         /\ i < Len(prSource)
         /\ prSource[i + 1] # <<>>
         /\ \E j, k \in 1..Len(prSource[i]) :
              j < k /\ InWindow(prSource[i][j]) /\ Beyond(prSource[i][k])
    /\ \E p \in 1..Len(Flatten(prSource)) : Flatten(prSource)[p].mergedAt = ZeroTime
    /\ allPullRequests # <<>>

\* A fetched page holds a merged pull request at or beyond the boundary.
StopSeen ==
    \E i \in 1..pagesFetched : \E k \in 1..Len(prSource[i]) : Beyond(prSource[i][k])

\* C8: once a merged pull request at or beyond the boundary has been seen no
\* further page is fetched; without one, every page is fetched before the
\* selector returns; and the selector does return (or the run is aborted).
C8_EarlyStop ==
    /\ [][StopSeen => pagesFetched' = pagesFetched]_vars
    /\ [](Selected => (StopSeen \/ pagesFetched = Len(prSource)))
    /\ <>(pc # "select")

\* C8: the selector returned early, leaving pages unfetched.
C8_Witness ==
    pc = "analyze" /\ StopSeen /\ pagesFetched < Len(prSource)

\* -------------------------------------------------- claims: correlator
\* The deployments listed for a SHA, and the creation time the index keeps for
\* it: the last listed one's.
DeploymentsOf(sha) == {i \in 1..Len(deployments) : deployments[i].sha = sha}
Matches(k) == DeploymentsOf(allPullRequests[k].sha) # {}
IndexedTime(sha) == deployments[Max(DeploymentsOf(sha))].createdAt
\* The pull requests walked so far, and the matching ones walked before k.
Walked == IF pc = "analyze" THEN {} ELSE 1..(wi - 1)
MatchesBefore(k) == {j \in 1..(k - 1) : Matches(j)}
Entry(k) == timeDeployment[allPullRequests[k].sha]
HasEntry(k) == allPullRequests[k].sha \in DOMAIN timeDeployment

C5_ForwardFill ==
    \A k \in Walked :
      ~Matches(k) =>
        IF MatchesBefore(k) = {} THEN ~HasEntry(k)
        ELSE /\ HasEntry(k)
             /\ Entry(k) = IndexedTime(allPullRequests[Max(MatchesBefore(k))].sha)

\* C5: one unmatched pull request walked before the first match, one after it.
C5_Witness ==
    /\ pc = "process"
    /\ \E j, k \in Walked :
         /\ ~Matches(j) /\ MatchesBefore(j) = {}
         /\ ~Matches(k) /\ MatchesBefore(k) # {}

\* The scenario of C6: three pull requests walked newest first (SHAs 1, 2, 3
\* in walk order) and one deployment, of SHA 2.
C6_Scenario ==
    /\ pc = "process"
    /\ Len(allPullRequests) = 3
    /\ Len(deployments) = 1
    /\ deployments[1].sha = 2

JustProcessed == locals # <<>> /\ pc \notin {"timeline", "scan", "fatal"}
Events == Flatten(timelineSource)
RequestTimes ==
    { Events[i].createdAt :
        i \in {j \in 1..Len(Events) : Events[j].event = eventReviewRequested} }
ReviewTimes ==
    { Events[i].submittedAt :
        i \in {j \in 1..Len(Events) : Events[j].event = eventReviewed} }
LastPullRequest == allPullRequests[prIdx - 1]
LastStat == prStats[Len(prStats)]

\* C1 as stated: when the timeline holds a review request and a review,
\* timeReviewRequested is taken from a review request (not the creation-time
\* default) and timeFirstReviewed from a review.
C1_BothTimesFound ==
    (JustProcessed /\ RequestTimes # {} /\ ReviewTimes # {}) =>
      /\ ~locals.isFirstReview
      /\ locals.timeReviewRequested \in RequestTimes
      /\ locals.timeReviewed \in ReviewTimes

\* The duration d (in ticks) to the nearest hour, halfway values away from zero.
NearestHour(d) ==
    CHOOSE m \in { h * TicksPerHour : h \in (0 - Abs(d) - 1)..(Abs(d) + 1) } :
      \/ 2 * Abs(d - m) < TicksPerHour
      \/ 2 * Abs(d - m) = TicksPerHour /\ Abs(m) > Abs(d)

\* C9 as stated: a reviewed pull request's timeToReview is the time from its
\* earliest review request (its creation without one) to its earliest review,
\* to the nearest hour.
C9_FirstRequestToFirstReview ==
    (JustProcessed /\ ReviewTimes # {}) =>
      LastStat.TimeToReview =
        NearestHour(Min(ReviewTimes) -
                    (IF RequestTimes # {} THEN Min(RequestTimes)
                     ELSE LastPullRequest.createdAt))

\* ------------------------------------------------- claims: aggregation
Aggregated == pc \in {"panic", "print", "done"}
Produced == metrics # <<>>

\* C3 as stated: a batch without a reviewed pull request (the empty batch
\* among them) is aggregated into a Metrics value counting the batch.
C3_NoReviewStillAggregates ==
    (Aggregated /\ \A i \in 1..Len(prStats) : ~prStats[i].WasReviewed) =>
      (Produced /\ metrics.TotalPullRequests = Len(allPullRequests))

\* C4 as stated: after a failed remote call no Metrics value is produced or
\* printed.
C4_FetchErrorIsFatal ==
    fetchFailed => (~Produced /\ pc \notin {"print", "done"})

\* The whole hours of the pull requests that have flag set: the subset a median
\* is over.
IsReviewed == "WasReviewed"
IsDeployed == "WasDeployed"
IsAny == "any"
HoursOf(field, flag) ==
    LET Keep(stat) == IF flag = IsAny THEN TRUE ELSE stat[flag]
        sub == SelectSeq(prStats, Keep)
    IN  [i \in 1..Len(sub) |-> sub[i][field] \div TicksPerHour]
\* The k-th smallest value of a non-empty sequence, and twice its median.
KthSmallest(v, k) ==
    CHOOSE x \in { v[i] : i \in 1..Len(v) } :
      /\ Cardinality({i \in 1..Len(v) : v[i] < x}) < k
      /\ Cardinality({i \in 1..Len(v) : v[i] <= x}) >= k
TwiceMedian(v) ==
    IF Len(v) % 2 = 1 THEN 2 * KthSmallest(v, (Len(v) + 1) \div 2)
    ELSE KthSmallest(v, Len(v) \div 2) + KthSmallest(v, Len(v) \div 2 + 1)
WholeHours(field) ==
    \A i \in 1..Len(prStats) : prStats[i][field] % TicksPerHour = 0

\* C10 as stated: each reported median is the median of its (non-empty) subset.
C10_MedianIsStandard ==
    Produced =>
      /\ HoursOf("TimeToReview", IsReviewed) # <<>> =>
           2 * metrics.MedianReviewTime =
             TwiceMedian(HoursOf("TimeToReview", IsReviewed))
      /\ HoursOf("TimeToMerge", IsAny) # <<>> =>
           2 * metrics.MedianTimeToMerge =
             TwiceMedian(HoursOf("TimeToMerge", IsAny))
      /\ HoursOf("TimeToProduction", IsDeployed) # <<>> =>
           2 * metrics.MedianLeadTimeForChanges =
             TwiceMedian(HoursOf("TimeToProduction", IsDeployed))

\* C10 amended: each reported median is the median of its (non-empty) subset of
\* whole-hour durations, truncated toward zero to a whole number of hours.
C10_MedianIsTruncated ==
    Produced =>
      /\ Len(prStats) = Len(allPullRequests)
      /\ WholeHours("TimeToReview") /\ WholeHours("TimeToMerge")
      /\ WholeHours("TimeToProduction")
      /\ HoursOf("TimeToReview", IsReviewed) # <<>> =>
           metrics.MedianReviewTime =
             TruncDiv(TwiceMedian(HoursOf("TimeToReview", IsReviewed)), 2)
      /\ HoursOf("TimeToMerge", IsAny) # <<>> =>
           metrics.MedianTimeToMerge =
             TruncDiv(TwiceMedian(HoursOf("TimeToMerge", IsAny)), 2)
      /\ HoursOf("TimeToProduction", IsDeployed) # <<>> =>
           metrics.MedianLeadTimeForChanges =
             TruncDiv(TwiceMedian(HoursOf("TimeToProduction", IsDeployed)), 2)

\* C10: two reviewed pull requests whose review times have no whole-hour mean,
\* one of them deployed.
C10_Witness ==
    /\ pc = "done"
    /\ Len(HoursOf("TimeToReview", IsReviewed)) % 2 = 0
    /\ TwiceMedian(HoursOf("TimeToReview", IsReviewed)) % 2 = 1
    /\ HoursOf("TimeToProduction", IsDeployed) # <<>>

\* The sum of a sequence of integers.
RECURSIVE SumSeq(_)
SumSeq(v) == IF v = <<>> THEN 0 ELSE v[1] + SumSeq(Tail(v))

\* C11: a pull request whose timeline holds no review request has its creation
\* time as timeReviewRequested; one whose timeline holds no review is not
\* reviewed and has no review time; and the average and the median review time
\* are those of the reviewed pull requests' times alone.
C11_TimelineDefaults ==
    /\ JustProcessed =>
         /\ RequestTimes = {} =>
              locals.timeReviewRequested = LastPullRequest.createdAt
         /\ ReviewTimes = {} =>
              (~LastStat.WasReviewed /\ IsZero(locals.timeReviewed))
    /\ Produced =>
         LET rev == HoursOf("TimeToReview", IsReviewed)
         IN  /\ rev # <<>>
             /\ metrics.AverageReviewTime = TruncDiv(SumSeq(rev), Len(rev))
             /\ metrics.MedianReviewTime = TruncDiv(TwiceMedian(rev), 2)
             /\ metrics.PullRequestsWithReview = Len(rev)

\* C11: the metrics of a batch of a reviewed pull request and one whose
\* timeline holds neither a review request nor a review.
C11_Witness ==
    /\ pc = "done"
    /\ RequestTimes = {} /\ ReviewTimes = {}
    /\ ~LastStat.WasReviewed
    /\ \E k \in 1..Len(prStats) : prStats[k].WasReviewed

\* The number of pull requests of the batch whose statistics have field = value.
Count(field, value) ==
    Cardinality({k \in 1..Len(prStats) : prStats[k][field] = value})

\* C12 as stated: every non-empty batch is aggregated into a Metrics value
\* whose TotalPullRequests is the size of the batch, PullRequestsWithReview the
\* number of reviewed pull requests, PullRequestsWithoutIssue the number of
\* pull requests not tracked with an issue, and PullRequestsWithReview plus the
\* number of unreviewed pull requests is TotalPullRequests.
C12_CountInvariant ==
    (Aggregated /\ allPullRequests # <<>>) =>
      /\ Produced
      /\ metrics.TotalPullRequests = Len(allPullRequests)
      /\ metrics.PullRequestsWithReview = Count("WasReviewed", TRUE)
      /\ metrics.PullRequestsWithoutIssue = Count("IsTrackedWithIssue", FALSE)
      /\ metrics.PullRequestsWithReview + Count("WasReviewed", FALSE) =
            metrics.TotalPullRequests

\* C13 as stated: for a reviewed pull request whose review requests and
\* reviews are all at or after its creation, the reference point the scan
\* selects is not later than the review it selects, and timeToReview is not
\* negative.
C13_TimeToReviewNonNegative ==
    (/\ JustProcessed
     /\ LastStat.WasReviewed
     /\ \A t \in RequestTimes \cup ReviewTimes : t >= LastPullRequest.createdAt)
      => /\ locals.timeReviewRequested <= locals.timeReviewed
         /\ LastStat.TimeToReview >= 0

=============================================================================
